---- MODULE Spec2Model ----
(***************************************************************************)
(* The flashcard session/plan scheduler `fc` of src/web/app.js, with its   *)
(* persistence helpers saveSession / tryResume and its input handlers.     *)
(*                                                                         *)
(* JavaScript runs one synchronous segment at a time.  A segment ends      *)
(* where an async function awaits a pywebview backend call; the rest of    *)
(* that function is a process in flight (a record in `procs`) that         *)
(* resumes when the backend answers, in any order relative to the other    *)
(* processes and to user input.  An await that resolves without a backend  *)
(* call (an entry that is already present, an async function that returns  *)
(* at once) continues in a microtask, before any input or answer, and is   *)
(* part of the same action.                                                *)
(*                                                                         *)
(* Arrays are sequences; activeIndex and groupStart keep the source's      *)
(* 0-based values.  A JS Set keeps insertion order, so weakSet is a        *)
(* sequence without duplicates.  PlanItems are objects shared by           *)
(* reference: they live in `heap` and the arrays hold their ids.           *)
(***************************************************************************)
EXTENDS Integers, Sequences, FiniteSets, Bags, TLC

VARIABLES
    \* fields of fc (app.js 137-150)
    mode, masterWords, groupSize, groupStart, stage, activeWords,
    activeIndex, seenStates, weakSet, current, needVerify, frontBusy,
    backBusy,
    \* DOM: the back face is visible (.face-back without class hidden)
    back,
    \* PlanItem objects: id -> [word, entry]
    heap,
    \* async calls in flight: a bag of process records
    procs,
    \* session store behind save_session_state / load_session_state:
    \* << >> (null) or << SessionState >>
    store,
    \* history: the _startGroup calls of the present plan and the words each
    \* one put in activeWords; whether _finishPlan ran since the last
    \* _startWithList
    groupsStarted, firstPass, planDone,
    \* observation: what the last step did, among the labels in `watch`
    event, watch,
    \* environment: the inputs so far that the card protocol does not expect
    strays

vars == <<mode, masterWords, groupSize, groupStart, stage, activeWords,
          activeIndex, seenStates, weakSet, current, needVerify, frontBusy,
          backBusy, back, heap, procs, store,
          groupsStarted, firstPass, planDone, event, watch, strays>>

----------------------------------------------------------------------------
\* Bounds of the model.

\* longest list a plan-sourcing call returns
MaxWords == 3
\* fc.groupSize is 10 in the source (app.js 140); the model starts it at a
\* smaller value so that a plan of MaxWords words spans several groups
InitGroupSize == 2
\* async calls in flight at one time
MaxProcs == 2
\* groupStart beyond which no further back-of-card call is issued
MaxGroupStart == 2
\* inputs outside the card protocol, and get_word calls without a result,
\* in one behaviour
MaxStrays == 1

\* _prefetchNext(3): app.js 262, 421
PrefetchCount == 3

\* the null reference (fc.current: null, app.js 147) is object id 0
Null == 0
FreeObj == [word |-> 0, entry |-> FALSE]

\* Object ids.  The i-th item of masterWords is object i; the k-th item of
\* an activeWords array with objects of its own (a weak loop, a reloaded
\* session) is object MaxWords + k; an object that left both arrays while a
\* process or fc.current still holds it moves to an id above those.
MasterIds == 1..MaxWords
OwnIds == (MaxWords + 1)..(2 * MaxWords)
OrphanIds == (2 * MaxWords + 1)..(2 * MaxWords + MaxProcs + 1)
ObjIds == MasterIds \cup OwnIds \cup OrphanIds

Max(a, b) == IF a >= b THEN a ELSE b
Min(a, b) == IF a <= b THEN a ELSE b
Range(s) == {s[i] : i \in DOMAIN s}

----------------------------------------------------------------------------
\* The scheduler state as one record, so that a synchronous call chain is a
\* composition of operators.  A step starts with no event.

State ==
    [mode |-> mode, masterWords |-> masterWords, groupSize |-> groupSize,
     groupStart |-> groupStart, stage |-> stage, activeWords |-> activeWords,
     activeIndex |-> activeIndex, seenStates |-> seenStates,
     weakSet |-> weakSet, current |-> current, needVerify |-> needVerify,
     frontBusy |-> frontBusy, backBusy |-> backBusy, back |-> back,
     heap |-> heap, procs |-> procs, store |-> store,
     groupsStarted |-> groupsStarted, firstPass |-> firstPass,
     planDone |-> planDone, event |-> {}]

Note(S, label) == [S EXCEPT !.event = @ \cup {label}]

\* process records
Proc(kind, pc, obj, word, flag, tag, j) ==
    [kind |-> kind, pc |-> pc, obj |-> obj, word |-> word, flag |-> flag,
     tag |-> tag, j |-> j]
Spawn(S, p) == [S EXCEPT !.procs = @ (+) SetToBag({p})]
Retire(S, p) == [S EXCEPT !.procs = @ (-) SetToBag({p})]
InFlight == BagToSet(procs)

\* objects a process in flight still holds
ProcRefs(ps) == {p.obj : p \in BagToSet(ps)} \ {Null}
Referenced(S) ==
    (Range(S.masterWords) \cup Range(S.activeWords) \cup {S.current}
       \cup ProcRefs(S.procs)) \ {Null}

\* S with the objects `from` moved to `to` (a function on `from`)
Moved(S, from, to) ==
    LET ren(o) == IF o \in from THEN to[o] ELSE o
        renProc(p) == [p EXCEPT !.obj = ren(@)]
        image == {to[x] : x \in from}
    IN  [S EXCEPT !.heap = [o \in ObjIds |->
                              IF o \in image
                              THEN S.heap[CHOOSE x \in from : to[x] = o]
                              ELSE IF o \in from THEN FreeObj
                              ELSE S.heap[o]],
                  !.procs = BagOfAll(renProc, @),
                  !.current = ren(@)]

\* the objects `olds` leave the arrays: those a process or fc.current still
\* holds become orphans, the others are garbage
Orphaned(S, olds) ==
    LET live == olds \cap (ProcRefs(S.procs) \cup {S.current})
        free == {o \in OrphanIds : S.heap[o].word = 0}
        rank(o) == Cardinality({x \in live : x <= o})
        slot(k) == CHOOSE o \in free : Cardinality({x \in free : x <= o}) = k
        S1 == IF live = {} THEN S
              ELSE Moved(S, live, [o \in live |-> slot(rank(o))])
    IN  [S1 EXCEPT !.heap = [o \in ObjIds |->
                               IF o \in olds THEN FreeObj ELSE @[o]]]

\* orphans keep their order and fill the lowest orphan ids; what nothing
\* refers to is dropped
Collected(S) ==
    LET refs == Referenced(S)
        live == OrphanIds \cap refs
        first == 2 * MaxWords
        to == [o \in live |-> first + Cardinality({x \in live : x <= o})]
    IN  IF live = {}
        THEN [S EXCEPT !.heap = [o \in ObjIds |->
                                   IF o \in refs THEN @[o] ELSE FreeObj]]
        ELSE LET S1 == Moved(S, live, to)
                 kept == (refs \ live) \cup {to[o] : o \in live}
             IN  [S1 EXCEPT !.heap = [o \in ObjIds |->
                                        IF o \in kept THEN @[o]
                                        ELSE FreeObj]]

\* the item values array `items` stored as objects base+1 .. base+n
Stored(S, items, base) ==
    [S EXCEPT !.heap = [o \in ObjIds |->
                          IF o - base \in DOMAIN items THEN items[o - base]
                          ELSE S.heap[o]]]
IdsFrom(base, n) == [i \in 1..n |-> base + i]

ItemValues(S, ids) == [i \in DOMAIN ids |-> S.heap[ids[i]]]

----------------------------------------------------------------------------
\* JS Set of words, in insertion order
SetAdd(ws, w) == IF w \in Range(ws) THEN ws ELSE Append(ws, w)
SetDelete(ws, w) == SelectSeq(ws, LAMBDA x : x # w)
\* new Set(array)
RECURSIVE SetFrom(_)
SetFrom(arr) ==
    IF arr = << >> THEN << >>
    ELSE SetAdd(SetFrom(SubSeq(arr, 1, Len(arr) - 1)), arr[Len(arr)])

\* a faulty write that pushes v onto the array
ArrayPush(arr, i, v) == Append(arr, v)

\* arr[i] = v on a JS array (0-based i); an index past the end leaves holes
ArraySet(arr, i, v) ==
    [k \in 1..Max(Len(arr), i + 1) |->
        IF k = i + 1 THEN v ELSE IF k <= Len(arr) THEN arr[k] ELSE "hole"]

resetSeen(n) == [i \in 1..n |-> "todo"]

----------------------------------------------------------------------------
\* persistence

\* a faulty snapshot that leaves the weak words out
SessionStateNoWeak(S) ==
    [mode |-> S.mode,
     masterWords |-> ItemValues(S, S.masterWords),
     groupSize |-> S.groupSize,
     groupStart |-> S.groupStart,
     stage |-> S.stage,
     activeWords |-> ItemValues(S, S.activeWords),
     activeIndex |-> S.activeIndex,
     seenStates |-> S.seenStates,
     weakSet |-> << >>]

SessionState(S) ==
    [mode |-> S.mode,
     masterWords |-> ItemValues(S, S.masterWords),
     groupSize |-> S.groupSize,
     groupStart |-> S.groupStart,
     stage |-> S.stage,
     activeWords |-> ItemValues(S, S.activeWords),
     activeIndex |-> S.activeIndex,
     seenStates |-> S.seenStates,
     weakSet |-> S.weakSet]

\* saveSession(clear): the snapshot is built and handed to the bridge in the
\* calling segment; the store keeps the last one handed over
saveSession(S, clear) ==
    [S EXCEPT !.store = IF clear THEN << >> ELSE <<SessionState(S)>>]

----------------------------------------------------------------------------
\* the scheduler's synchronous code

\* the tail of confirmCorrect / nextAfterShow after `await this._next()`
\* (app.js 356-358, 381-383)
backTail(S) == [S EXCEPT !.backBusy = FALSE]

\* fc._finishPlan; refreshStats() only redraws the donut chart
_finishPlan(S) ==
    saveSession(Note([S EXCEPT !.planDone = TRUE], "finish"), TRUE)

\* fc._prefetchNext from its round j on: rounds whose item has an entry (or
\* whose index is past the end) pass in microtasks; the first item without
\* one is fetched and the loop waits for the answer
RECURSIVE prefetchFrom(_, _)
prefetchFrom(S, j) ==
    IF j > PrefetchCount THEN S
    ELSE LET idx == S.activeIndex + j IN
         IF idx < Len(S.activeWords)
         THEN LET o == S.activeWords[idx + 1] IN
              IF S.heap[o].entry
              THEN prefetchFrom(S, j + 1)
              ELSE Spawn(S, Proc("prefetch", "get_word", o, S.heap[o].word,
                                 FALSE, "", j))
         ELSE prefetchFrom(S, j + 1)

_prefetchNext(S) == prefetchFrom(S, 1)

\* fc._show after `await this._ensureCardData(this.current)`: start the
\* prefetch and send the view_start signal
showEnsured(S, tail) ==
    Spawn(_prefetchNext(S),
          Proc("show", "view_start", Null, S.heap[S.current].word, tail,
               "", 0))

\* fc._show(i); tail: a back-of-card call awaits it through _next
_show(S, i, tail) ==
    IF Len(S.activeWords) = 0
    THEN IF tail THEN backTail(_finishPlan(S)) ELSE _finishPlan(S)
    ELSE LET idx == Max(0, Min(i, Len(S.activeWords) - 1))
             cur == S.activeWords[idx + 1]
             S1 == [S EXCEPT !.activeIndex = idx, !.current = cur,
                             !.back = FALSE, !.backBusy = FALSE]
         IN  IF S1.heap[cur].entry
             THEN showEnsured(S1, tail)
             ELSE Spawn(S1, Proc("show", "get_word", cur, S1.heap[cur].word,
                                 tail, "", 0))

\* a faulty _startGroup that leaves weakSet as it is
_startGroupKeepingWeak(S) ==
    LET group == SubSeq(S.masterWords, S.groupStart + 1,
                        Min(S.groupStart + S.groupSize, Len(S.masterWords)))
        S0 == Note(Orphaned(S, OwnIds),
                   IF S.weakSet = << >> THEN "startGroup" ELSE "startGroupWeak")
        S1 == [S0 EXCEPT !.stage = "firstpass",
                        !.activeWords = group,
                        !.activeIndex = 0,
                        !.seenStates = resetSeen(Len(group)),
                        !.groupsStarted = @ + 1,
                        !.firstPass = Append(@, {S.heap[o].word :
                                                   o \in Range(group)})]
    IN  saveSession(_show(S1, 0, FALSE), FALSE)

\* fc._startGroup
_startGroup(S) ==
    LET group == SubSeq(S.masterWords, S.groupStart + 1,
                        Min(S.groupStart + S.groupSize, Len(S.masterWords)))
        S0 == Note(Orphaned(S, OwnIds),
                   IF S.weakSet = << >> THEN "startGroup" ELSE "startGroupWeak")
        S1 == [S0 EXCEPT !.stage = "firstpass",
                        !.activeWords = group,
                        !.activeIndex = 0,
                        !.weakSet = << >>,
                        !.seenStates = resetSeen(Len(group)),
                        !.groupsStarted = @ + 1,
                        !.firstPass = Append(@, {S.heap[o].word :
                                                   o \in Range(group)})]
    IN  saveSession(_show(S1, 0, FALSE), FALSE)

\* a faulty _nextGroup that moves groupStart on by one word
_nextGroupByOne(S) ==
    LET S1 == [S EXCEPT !.groupStart = @ + 1]
    IN  IF S1.groupStart >= Len(S1.masterWords)
        THEN _finishPlan(S1)
        ELSE _startGroup(S1)

\* fc._nextGroup
_nextGroup(S) ==
    LET S1 == [S EXCEPT !.groupStart = @ + S.groupSize]
    IN  IF S1.groupStart >= Len(S1.masterWords)
        THEN _finishPlan(S1)
        ELSE _startGroup(S1)

\* a faulty _startWeakLoop that keeps the seenStates of the pass before
_startWeakLoopKeepingSeen(S) ==
    IF Len(S.weakSet) = 0 THEN _nextGroup(S)
    ELSE LET S0 == Stored(Orphaned(S, OwnIds),
                          [i \in DOMAIN S.weakSet |->
                              [word |-> S.weakSet[i], entry |-> FALSE]],
                          MaxWords)
             S1 == [S0 EXCEPT !.stage = "weakloop",
                              !.activeWords = IdsFrom(MaxWords,
                                                      Len(S.weakSet)),
                              !.activeIndex = 0]
         IN  saveSession(_show(S1, 0, FALSE), FALSE)

\* fc._startWeakLoop
_startWeakLoop(S) ==
    IF Len(S.weakSet) = 0 THEN _nextGroup(S)
    ELSE LET S0 == Stored(Orphaned(S, OwnIds),
                          [i \in DOMAIN S.weakSet |->
                              [word |-> S.weakSet[i], entry |-> FALSE]],
                          MaxWords)
             S1 == [S0 EXCEPT !.stage = "weakloop",
                              !.activeWords = IdsFrom(MaxWords,
                                                      Len(S.weakSet)),
                              !.activeIndex = 0,
                              !.seenStates = resetSeen(Len(S.weakSet))]
         IN  saveSession(_show(S1, 0, FALSE), FALSE)

\* fc._next; awaited: the caller is a back-of-card call awaiting it
_next(S, awaited) ==
    IF S.activeIndex + 1 < Len(S.activeWords)
    THEN _show(S, S.activeIndex + 1, awaited)
    ELSE LET S0 == Note(S, IF S.stage = "firstpass" THEN "firstPassEnd"
                              ELSE "weakPassEnd")
             S1 == IF S0.stage = "firstpass" THEN _startWeakLoop(S0)
                   ELSE IF Len(S0.weakSet) > 0 THEN _startWeakLoop(S0)
                   ELSE _nextGroup(S0)
         IN  IF awaited THEN backTail(S1) ELSE S1

\* fc._startWithList; list: item values [word, entry]
_startWithList(S, list, m) ==
    LET S0 == Stored(Orphaned(S, MasterIds \cup OwnIds), list, 0)
        S1 == [S0 EXCEPT !.mode = m,
                        !.masterWords = IdsFrom(0, Len(list)),
                        !.groupStart = 0,
                        !.groupsStarted = 0,
                        !.firstPass = << >>,
                        !.planDone = FALSE]
    IN  _startGroup(S1)

\* fc._flip
_flip(S) == [S EXCEPT !.back = ~@]

\* `x || d` of JavaScript, on a number and on a string
OrNum(x, d) == IF x = 0 THEN d ELSE x
OrStr(x, d) == IF x = "" THEN d ELSE x
\* the default of `st.groupSize || 10` (app.js 454)
DefaultGroupSize == 10

\* tryResume after `await callApi("load_session_state")`;
\* r: [ok, state], state << >> (absent) or << SessionState >>
tryResume(S, r) ==
    IF ~r.ok THEN S
    ELSE IF r.state = << >> THEN Note(S, "nullLoad")
    ELSE LET st == r.state[1]
             S0 == Stored(Stored(Orphaned(S, MasterIds \cup OwnIds),
                                 st.masterWords, 0),
                          st.activeWords, MaxWords)
             S1 == [S0 EXCEPT !.mode = OrStr(st.mode, "idle"),
                             !.masterWords = IdsFrom(0, Len(st.masterWords)),
                             !.groupSize = OrNum(st.groupSize, DefaultGroupSize),
                             !.groupStart = OrNum(st.groupStart, 0),
                             !.stage = OrStr(st.stage, "firstpass"),
                             !.activeWords = IdsFrom(MaxWords,
                                                     Len(st.activeWords)),
                             !.activeIndex = OrNum(st.activeIndex, 0),
                             !.seenStates = st.seenStates,
                             !.weakSet = SetFrom(st.weakSet)]
         IN  IF Len(S1.activeWords) > 0
             THEN _show(S1, S1.activeIndex, FALSE)
             ELSE S1

----------------------------------------------------------------------------
\* the asynchronous operations, up to their first backend call

\* a faulty markRemember that does not look at frontBusy
markRememberReentrant(S, remembered) ==
    IF S.backBusy THEN S
    ELSE LET S1 == [S EXCEPT !.frontBusy = TRUE, !.needVerify = remembered]
         IN  IF S1.current = Null THEN S1
             ELSE Spawn(S1, Proc("mark", "signal", S1.current,
                                 S1.heap[S1.current].word, remembered, "", 0))

\* fc.markRemember(remembered); `w.word` of a null fc.current throws, and
\* the rejected call leaves frontBusy set
markRemember(S, remembered) ==
    IF S.frontBusy \/ S.backBusy THEN S
    ELSE LET S1 == [S EXCEPT !.frontBusy = TRUE, !.needVerify = remembered]
         IN  IF S1.current = Null THEN S1
             ELSE Spawn(S1, Proc("mark", "signal", S1.current,
                                 S1.heap[S1.current].word, remembered, "", 0))

\* the common start of fc.confirmCorrect(ok) and fc.nextAfterShow()
backCall(S, op, ok) ==
    IF S.backBusy THEN S
    ELSE LET S1 == [S EXCEPT !.backBusy = TRUE]
         IN  IF S1.current = Null THEN S1
             ELSE Spawn(S1, Proc("back", "signal", Null,
                                 S1.heap[S1.current].word, ok, op, 0))

confirmCorrect(S, ok) == backCall(S, "confirmCorrect", ok)
nextAfterShow(S) == backCall(S, "nextAfterShow", FALSE)

\* the end of fc.markRemember: _renderBack, _flip, frontBusy, saveSession
markTail(S) ==
    saveSession([_flip(S) EXCEPT !.frontBusy = FALSE], FALSE)

\* fc._ensureCardData after get_word answered; found: the answer has an
\* entry.  The entry is assigned without a second look at w.entry
ensureAssign(S, o, found) ==
    IF found
    THEN [(IF S.heap[o].entry THEN Note(S, "entryAgain") ELSE S)
             EXCEPT !.heap[o].entry = TRUE]
    ELSE Note(S, "noResult")

\* the segments that follow the answer of get_word in _show, _prefetchNext
\* and markRemember
showGotWord(S, p, found) ==
    showEnsured(ensureAssign(Retire(S, p), p.obj, found), p.flag)

prefetchGotWord(S, p, found) ==
    prefetchFrom(ensureAssign(Retire(S, p), p.obj, found), p.j + 1)

\* a faulty continuation of markRemember: a get_word without a result ends
\* the call there
markGotWordOrStop(S, p, found) ==
    IF found THEN markTail(ensureAssign(Retire(S, p), p.obj, found))
    ELSE Note(Retire(S, p), "noResult")

markGotWord(S, p, found) ==
    markTail(ensureAssign(Retire(S, p), p.obj, found))

\* a faulty verification that never takes a word out of weakSet
verifyOutcomeNoDelete(S, p) ==
    IF p.tag = "nextAfterShow"
    THEN [S EXCEPT !.seenStates = ArraySet(@, S.activeIndex, "weak"),
                   !.weakSet = SetAdd(@, p.word)]
    ELSE LET S1 == [S EXCEPT !.seenStates =
                        ArraySet(@, S.activeIndex,
                                 IF p.flag THEN "ok" ELSE "weak")]
         IN  IF ~p.flag THEN [S1 EXCEPT !.weakSet = SetAdd(@, p.word)]
             ELSE S1

\* confirmCorrect / nextAfterShow after the verify signal: app.js 342-344,
\* 369-370
verifyOutcome(S, p) ==
    IF p.tag = "nextAfterShow"
    THEN [S EXCEPT !.seenStates = ArraySet(@, S.activeIndex, "weak"),
                   !.weakSet = SetAdd(@, p.word)]
    ELSE LET S1 == [S EXCEPT !.seenStates =
                        ArraySet(@, S.activeIndex,
                                 IF p.flag THEN "ok" ELSE "weak")]
             S2 == IF p.flag /\ S1.stage = "weakloop"
                   THEN [S1 EXCEPT !.weakSet = SetDelete(@, p.word)]
                   ELSE S1
         IN  IF ~p.flag THEN [S2 EXCEPT !.weakSet = SetAdd(@, p.word)]
             ELSE S2

\* a faulty score: nextAfterShow reporting a pass
ScorePassOnNext(p) ==
    IF p.tag = "nextAfterShow" THEN 1 ELSE IF p.flag THEN 1 ELSE 0

\* the score handed to commit_review and update_score: app.js 350-351, 375-376
Score(p) ==
    IF p.tag = "nextAfterShow" THEN 0 ELSE IF p.flag THEN 1 ELSE 0

\* the detail of the verify signal: app.js 340, 368
VerifyDetail(p) ==
    IF p.tag = "nextAfterShow" THEN "verified_wrong"
    ELSE IF p.flag THEN "verified_correct" ELSE "verified_wrong"

\* the backend call a back-of-card process in flight is waiting for.  After
\* the verify signal the call awaits note_learn_event, commit_review,
\* update_score and progress_snapshot in turn and touches no state of fc in
\* between, so the four waits are one pc, "report", whose request is the
\* scoring call (update_score gets the same arguments)
Request(p) ==
    IF p.pc = "signal"
    THEN [api |-> "record_signal_tool", word |-> p.word,
          detail |-> VerifyDetail(p), score |-> 0]
    ELSE [api |-> "commit_review", word |-> p.word, detail |-> "",
          score |-> Score(p)]

\* the keydown handler, for the keys it knows: " ", "1"/"y", "2"/"n",
\* "arrowright"
keydown(S, k) ==
    IF S.frontBusy \/ S.backBusy THEN S
    ELSE IF k = " "
    THEN IF S.back /\ ~S.needVerify THEN nextAfterShow(S) ELSE _flip(S)
    ELSE IF k = "1"
    THEN IF S.back /\ S.needVerify THEN confirmCorrect(S, TRUE)
         ELSE markRemember(S, TRUE)
    ELSE IF k = "2"
    THEN IF S.back /\ S.needVerify THEN confirmCorrect(S, FALSE)
         ELSE markRemember(S, FALSE)
    ELSE IF S.back /\ ~S.needVerify THEN nextAfterShow(S)
         ELSE _next(S, FALSE)

Keys == {" ", "1", "2", "arrowright"}

----------------------------------------------------------------------------
\* answers of the plan-sourcing calls: no result, not ok, or ok with the
\* first k words, all with or all without an entry
PlanList(k, e) == [i \in 1..k |-> [word |-> i, entry |-> e]]
PlanAnswers ==
    {[result |-> FALSE, ok |-> FALSE, items |-> << >>],
     [result |-> TRUE, ok |-> FALSE, items |-> << >>]}
    \cup {[result |-> TRUE, ok |-> TRUE, items |-> PlanList(k, e)] :
            k \in 0..MaxWords, e \in BOOLEAN}

\* `!r?.ok || !(r.items || []).length` (app.js 158, 171, 185)
Failing(r) == ~r.result \/ ~r.ok \/ Len(r.items) = 0

\* a faulty plan start that shows its notice and goes on
planAnsweredNoReturn(S, m, r) ==
    IF Failing(r)
    THEN _startWithList(Note(S, "rejected"), r.items, m)
    ELSE _startWithList(S, r.items, m)

\* startDailyPlan / startReviewToday / startReviewByScore after the await
planAnswered(S, m, r) ==
    IF Failing(r)
    THEN Note(S, "rejected")
    ELSE _startWithList(S, r.items, m)

----------------------------------------------------------------------------
\* the next state: S with the objects nothing refers to dropped; no more
\* than MaxProcs calls are in flight
Commit(S0) ==
    \E S \in {Collected(S0)} :
    /\ BagCardinality(S.procs) <= MaxProcs
    /\ mode' = S.mode
    /\ masterWords' = S.masterWords
    /\ groupSize' = S.groupSize
    /\ groupStart' = S.groupStart
    /\ stage' = S.stage
    /\ activeWords' = S.activeWords
    /\ activeIndex' = S.activeIndex
    /\ seenStates' = S.seenStates
    /\ weakSet' = S.weakSet
    /\ current' = S.current
    /\ needVerify' = S.needVerify
    /\ frontBusy' = S.frontBusy
    /\ backBusy' = S.backBusy
    /\ back' = S.back
    /\ heap' = S.heap
    /\ procs' = S.procs
    /\ store' = S.store
    /\ groupsStarted' = S.groupsStarted
    /\ firstPass' = S.firstPass
    /\ planDone' = S.planDone
    /\ event' = S.event \cap watch
    /\ watch' = watch

\* fc as constructed (app.js 137-150), nothing in flight, an empty store
Fresh ==
    /\ mode = "idle"
    /\ masterWords = << >>
    /\ groupSize = InitGroupSize
    /\ groupStart = 0
    /\ stage = "firstpass"
    /\ activeWords = << >>
    /\ activeIndex = 0
    /\ seenStates = << >>
    /\ weakSet = << >>
    /\ current = Null
    /\ needVerify = FALSE
    /\ frontBusy = FALSE
    /\ backBusy = FALSE
    /\ back = FALSE
    /\ heap = [o \in ObjIds |-> FreeObj]
    /\ procs = EmptyBag
    /\ store = << >>
    /\ groupsStarted = 0
    /\ firstPass = << >>
    /\ planDone = FALSE
    /\ event = {}
    /\ strays = 0

----------------------------------------------------------------------------
\* user input

\* startDailyPlan / startReviewToday / startReviewByScore.  The call to
\* the plan source reads and writes nothing of fc and nothing guards it, so
\* call and answer are one action: the answer arriving at any moment
StartDailyPlan(r) == Commit(planAnswered(State, "learn", r))
StartReviewToday(r) == Commit(planAnswered(State, "review_today", r))
StartReviewByScore(r) == Commit(planAnswered(State, "review_score", r))

\* init() and btn-choose-store end in tryResume on the present store; the
\* answer of load_session_state carries the store's content
ChooseStore(ok) ==
    Commit(tryResume(State, [ok |-> ok, state |-> store]))

\* btn-switch-store: the backend moves to a store that holds no session,
\* and tryResume finds no state there
SwitchStore ==
    Commit(tryResume([State EXCEPT !.store = << >>],
                     [ok |-> TRUE, state |-> << >>]))

MarkRemember(remembered) ==
    /\ ~(frontBusy \/ backBusy)
    /\ Commit(markRemember(State, remembered))

ConfirmCorrect(ok) ==
    /\ ~backBusy
    /\ groupStart <= MaxGroupStart
    /\ Commit(confirmCorrect(State, ok))

NextAfterShow ==
    /\ ~backBusy
    /\ groupStart <= MaxGroupStart
    /\ Commit(nextAfterShow(State))

KeyDown(k) ==
    /\ ~(frontBusy \/ backBusy)
    /\ groupStart <= MaxGroupStart
    /\ Commit(keydown(State, k))

----------------------------------------------------------------------------
\* backend answers

ShowGotWord(p, found) ==
    /\ p.kind = "show" /\ p.pc = "get_word"
    /\ Commit(showGotWord(State, p, found))

ShowSignalled(p) ==
    /\ p.kind = "show" /\ p.pc = "view_start"
    /\ LET S1 == saveSession(Retire(State, p), FALSE)
       IN  Commit(IF p.flag THEN backTail(S1) ELSE S1)

PrefetchGotWord(p, found) ==
    /\ p.kind = "prefetch"
    /\ Commit(prefetchGotWord(State, p, found))

MarkSignalled(p) ==
    /\ p.kind = "mark" /\ p.pc = "signal"
    /\ LET S0 == Retire(State, p)
           S1 == IF ~p.flag THEN [S0 EXCEPT !.weakSet = SetAdd(@, p.word)]
                 ELSE S0
       IN  Commit(IF S1.heap[p.obj].entry THEN markTail(S1)
                  ELSE Spawn(S1, [p EXCEPT !.pc = "get_word"]))

MarkGotWord(p, found) ==
    /\ p.kind = "mark" /\ p.pc = "get_word"
    /\ Commit(markGotWord(State, p, found))

BackSignalled(p) ==
    /\ p.kind = "back" /\ p.pc = "signal"
    /\ Commit(Spawn(verifyOutcome(Retire(State, p), p),
                    [p EXCEPT !.pc = "report"]))

\* refreshStats answered: _updateProgress, then `await this._next()`
BackAdvance(p) ==
    /\ p.kind = "back" /\ p.pc = "report"
    /\ Commit(_next(Retire(State, p), TRUE))

----------------------------------------------------------------------------
\* The environment.  The card protocol: a plan is started when none is in
\* progress; a card that is shown front up is answered by markRemember,
\* and once its back is up by one confirmCorrect or nextAfterShow; get_word
\* finds the word.

NoPlan == planDone \/ mode = "idle"
CardShown == current # Null /\ ~planDone /\ ~frontBusy /\ ~backBusy
FrontShown == CardShown /\ ~back
BackShown == CardShown /\ back /\ \A p \in InFlight : p.kind # "back"

\* an input or answer A; one that is not `expected` by the protocol is one
\* of the MaxStrays strays of the behaviour
Budget(expected, A) ==
    /\ expected \/ strays < MaxStrays
    /\ A
    /\ strays' = IF expected THEN strays ELSE strays + 1

ProtoCards ==
    \/ \E b \in BOOLEAN :
         FrontShown /\ Budget(TRUE, MarkRemember(b))
    \/ \E b \in BOOLEAN :
         BackShown /\ Budget(TRUE, ConfirmCorrect(b))
    \/ BackShown /\ Budget(TRUE, NextAfterShow)

ProtoAnswer ==
    \E p \in InFlight :
        \/ Budget(TRUE, ShowGotWord(p, TRUE))
        \/ Budget(TRUE, ShowSignalled(p))
        \/ Budget(TRUE, PrefetchGotWord(p, TRUE))
        \/ Budget(TRUE, MarkSignalled(p))
        \/ Budget(TRUE, MarkGotWord(p, TRUE))
        \/ Budget(TRUE, BackSignalled(p))
        \/ Budget(TRUE, BackAdvance(p))

\* ProtoSpec: the card protocol throughout
ProtoInit == Fresh /\ watch = {"weakPassEnd", "entryAgain"}
ProtoNext ==
    \/ \E r \in PlanAnswers :
         NoPlan /\ Budget(TRUE, StartDailyPlan(r))
    \/ ProtoCards
    \/ ProtoAnswer
ProtoSpec == ProtoInit /\ [][ProtoNext]_vars

\* StartSpec: one plan, started by any of the three calls; an answer that
\* carries no items at any moment; the cards by the protocol
StartInit == Fresh /\ watch = {"rejected"}
StartNext ==
    \/ \E r \in PlanAnswers :
         (mode = "idle" \/ Failing(r)) /\ Budget(TRUE, StartDailyPlan(r))
    \/ \E r \in PlanAnswers :
         (mode = "idle" \/ Failing(r)) /\ Budget(TRUE, StartReviewToday(r))
    \/ \E r \in PlanAnswers :
         (mode = "idle" \/ Failing(r)) /\ Budget(TRUE, StartReviewByScore(r))
    \/ ProtoCards
    \/ ProtoAnswer
StartSpec == StartInit /\ [][StartNext]_vars

\* Spec: any input at any moment and get_word calls without a result, up
\* to MaxStrays departures from the protocol
Input ==
    \/ \E r \in PlanAnswers :
         Budget(NoPlan \/ Failing(r), StartDailyPlan(r))
    \/ \E ok \in BOOLEAN : Budget(FALSE, ChooseStore(ok))
    \/ Budget(FALSE, SwitchStore)
    \/ \E b \in BOOLEAN : Budget(FrontShown, MarkRemember(b))
    \/ \E b \in BOOLEAN : Budget(BackShown, ConfirmCorrect(b))
    \/ Budget(BackShown, NextAfterShow)
    \/ \E k \in Keys : Budget(FALSE, KeyDown(k))

Answer ==
    \E p \in InFlight :
        \/ \E found \in BOOLEAN : Budget(found, ShowGotWord(p, found))
        \/ Budget(TRUE, ShowSignalled(p))
        \/ \E found \in BOOLEAN : Budget(found, PrefetchGotWord(p, found))
        \/ Budget(TRUE, MarkSignalled(p))
        \/ \E found \in BOOLEAN : Budget(found, MarkGotWord(p, found))
        \/ Budget(TRUE, BackSignalled(p))
        \/ Budget(TRUE, BackAdvance(p))

Init ==
    Fresh /\ watch = {"startGroup", "startGroupWeak", "firstPassEnd",
                      "noResult", "nullLoad"}
Next == Input \/ Answer
Spec == Init /\ [][Next]_vars

----------------------------------------------------------------------------
\* Properties.

CeilDiv(a, b) == (a + b - 1) \div b

\* the back-of-card call p got the answer of its verify signal in this step:
\* one more copy of p waits for the reports
Reported(p) == [p EXCEPT !.pc = "report"]
Verified(p, op) ==
    /\ p.kind = "back" /\ p.pc = "signal" /\ p.tag = op
    /\ CopiesIn(Reported(p), procs') > CopiesIn(Reported(p), procs)

\* C1: when a plan of L >= 1 words driven by the card protocol has finished,
\* _startGroup was entered ceil(L / groupSize) times and every word of the
\* master list was in activeWords of exactly one group's first pass.
C1_GroupsPartitionMaster ==
    (planDone /\ Len(masterWords) >= 1) =>
        /\ groupsStarted = CeilDiv(Len(masterWords), groupSize)
        /\ \A i \in DOMAIN masterWords :
             Cardinality({g \in DOMAIN firstPass :
                            heap[masterWords[i]].word \in firstPass[g]}) = 1

\* a finished plan whose last group is shorter than groupSize
C1_Witness ==
    /\ planDone
    /\ groupsStarted > 1
    /\ Len(masterWords) % groupSize # 0

\* C2: after every step in which _startGroup ran, the stage is firstpass,
\* activeIndex is 0 and weakSet is empty, whatever weakSet held before.
C2_WeakSetEmptyAtGroupStart ==
    (event \cap {"startGroup", "startGroupWeak"} # {}) =>
        /\ stage = "firstpass"
        /\ activeIndex = 0
        /\ weakSet = << >>

\* _startGroup ran on a weakSet that still held words
C2_Witness == "startGroupWeak" \in event

\* C3: a step that advances past the last item of a first pass either, with
\* weakSet non-empty, enters weakloop with one new item without entry per
\* word of weakSet, in weakSet's order, activeIndex 0 and seenStates all
\* todo, or, with weakSet empty, goes on to _nextGroup and enters no weak
\* loop.
C3_FirstPassEnd ==
    [][("firstPassEnd" \in event') =>
         IF weakSet # << >>
         THEN /\ stage' = "weakloop"
              /\ weakSet' = weakSet
              /\ Len(activeWords') = Len(weakSet)
              /\ \A i \in DOMAIN activeWords' :
                   /\ heap'[activeWords'[i]].word = weakSet[i]
                   /\ ~heap'[activeWords'[i]].entry
                   /\ activeWords'[i] \notin Range(masterWords')
              /\ activeIndex' = 0
              /\ seenStates' = [i \in 1..Len(weakSet) |-> "todo"]
              /\ groupStart' = groupStart
         ELSE /\ stage' = "firstpass"
              /\ groupStart' = groupStart + groupSize]_vars

\* a first pass ended with weak words and the weak loop began
C3_Witness ==
    /\ "firstPassEnd" \in event
    /\ stage = "weakloop"
    /\ weakSet # << >>

\* C4: under the card protocol, at the end of a weak-loop pass weakSet is
\* exactly the words of the pass that were not verified correct in it; if
\* there are any, the next pass is over exactly those words in the same
\* group, and only if there are none does the scheduler leave the group.
C4_WeakPassEnd ==
    [][("weakPassEnd" \in event') =>
         LET left == {heap[activeWords[i]].word :
                        i \in {k \in DOMAIN activeWords :
                                 seenStates[k] # "ok"}}
         IN  /\ Range(weakSet) = left
             /\ IF left # {}
                THEN /\ stage' = "weakloop"
                     /\ {heap'[o].word : o \in Range(activeWords')} = left
                     /\ Len(activeWords') = Cardinality(left)
                     /\ groupStart' = groupStart
                     /\ ~planDone'
                ELSE /\ groupStart' = groupStart + groupSize
                     /\ planDone' \/ stage' = "firstpass"]_vars

\* a weak-loop pass over fewer words than the group follows a weak-loop pass
C4_Witness ==
    /\ "weakPassEnd" \in event
    /\ stage = "weakloop"
    /\ firstPass # << >>
    /\ Len(activeWords) < Cardinality(firstPass[Len(firstPass)])

\* C5: when the verify signal of an accepted nextAfterShow is answered,
\* seenStates[activeIndex] becomes weak and the word is in weakSet, the
\* signal sent was verified_wrong and the score the call goes on to report
\* for that word is 0.
C5_NextAfterShowIsWrong ==
    [][\A p \in InFlight :
         Verified(p, "nextAfterShow") =>
            /\ seenStates'[activeIndex + 1] = "weak"
            /\ p.word \in Range(weakSet')
            /\ Request(p).api = "record_signal_tool"
            /\ Request(p).word = p.word
            /\ Request(p).detail = "verified_wrong"
            /\ Request(Reported(p)).word = p.word
            /\ Request(Reported(p)).score = 0]_vars

\* nextAfterShow verified on a weak-loop card whose front is still up
C5_Witness ==
    /\ stage = "weakloop"
    /\ ~back
    /\ seenStates[activeIndex + 1] = "weak"
    /\ \E p \in InFlight :
         /\ p.kind = "back" /\ p.pc = "report" /\ p.tag = "nextAfterShow"
         /\ p.word = heap[current].word

\* C6: when the verify signal of an accepted confirmCorrect(ok) is answered,
\* the seenStates position that is written is the position of the item that
\* was verified, it becomes ok or weak by ok, the word leaves weakSet when
\* ok in weakloop and is in weakSet when not ok, and the score the call goes
\* on to report for that word is 1 when ok and 0 otherwise.
C6_ConfirmCorrectMarksItsItem ==
    [][\A p \in InFlight :
         Verified(p, "confirmCorrect") =>
            /\ activeIndex < Len(activeWords)
            /\ heap[activeWords[activeIndex + 1]].word = p.word
            /\ seenStates' = ArraySet(seenStates, activeIndex,
                                      IF p.flag THEN "ok" ELSE "weak")
            /\ (p.flag /\ stage = "weakloop") => p.word \notin Range(weakSet')
            /\ ~p.flag => p.word \in Range(weakSet')
            /\ Request(Reported(p)).word = p.word
            /\ Request(Reported(p)).score = (IF p.flag THEN 1 ELSE 0)]_vars

\* C7: from the completion of a plan until the next plan start the session
\* store holds no snapshot.
C7_NoSessionAfterFinish == planDone => store = << >>

\* C9: in every state with a plan in progress, the snapshot saveSession
\* builds, loaded and applied by tryResume, gives back mode, groupStart,
\* stage, activeIndex and seenStates, and weakSet as the same set.
C9_RoundTrip ==
    (mode # "idle" /\ ~planDone) =>
        LET R == tryResume(State,
                           [ok |-> TRUE,
                            state |-> saveSession(State, FALSE).store])
        IN  /\ R.mode = mode
            /\ R.groupStart = groupStart
            /\ R.stage = stage
            /\ R.activeIndex = activeIndex
            /\ R.seenStates = seenStates
            /\ Range(R.weakSet) = Range(weakSet)

\* a session that was saved and resumed on its second card, with a weak
\* word, and saved again
C9_Witness ==
    /\ mode # "idle" /\ ~planDone
    /\ stage = "firstpass"
    /\ activeWords # << >>
    /\ Range(activeWords) \subseteq OwnIds
    /\ activeIndex > 0
    /\ weakSet # << >>
    /\ store = <<SessionState(State)>>

\* C10: while frontBusy is set, the markRemember call that set it is in
\* flight, so that its last segment clears the flag.
C10_FrontBusyIsCleared ==
    frontBusy => \E p \in InFlight : p.kind = "mark"

\* C8: a step in which a plan start was turned down for want of items leaves
\* mode, masterWords, groupStart, stage, activeWords, activeIndex,
\* seenStates and weakSet as they were, starts no group, issues no call and
\* leaves the session store as it was.
C8_FailedStartChangesNothing ==
    [][("rejected" \in event') =>
         UNCHANGED <<mode, masterWords, groupStart, stage, activeWords,
                     activeIndex, seenStates, weakSet, heap, groupsStarted,
                     procs, store>>]_vars

\* a plan start turned down while a plan is in progress and a session is
\* stored
C8_Witness ==
    /\ "rejected" \in event
    /\ mode # "idle" /\ ~planDone
    /\ store # << >>

\* the back-of-card calls in flight: accepted, and waiting for the verify
\* signal, for the reports, or in `await this._next()` for the _show it
\* started (app.js 353-356, 379-381)
BackOps == {p \in InFlight : p.kind = "back" \/ (p.kind = "show" /\ p.flag)}

\* C11: at most one confirmCorrect or nextAfterShow call is in flight at any
\* time: a further call made while one is accepted and has not returned is
\* a no-op.
C11_OneBackCallInFlight ==
    /\ Cardinality(BackOps) <= 1
    /\ \A p \in BackOps : CopiesIn(p, procs) = 1

\* the markRemember calls in flight
MarkOps == {p \in InFlight : p.kind = "mark"}

\* C12: while a markRemember call is in flight frontBusy is set and a
\* further markRemember call, from a button or from the keys 1 / y / 2 / n,
\* returns at once and changes nothing; so no more than one markRemember
\* call is in flight.
C12_MarkRememberNotReentrant ==
    (MarkOps # {}) =>
        /\ frontBusy
        /\ \A b \in BOOLEAN : markRemember(State, b) = State
        /\ \A k \in {"1", "2"} : keydown(State, k) = State
        /\ Cardinality(MarkOps) = 1
        /\ \A p \in MarkOps : CopiesIn(p, procs) = 1

\* a markRemember(false) call that has put its word in weakSet and waits
\* for get_word, with no back-of-card call about
C12_Witness ==
    /\ \E p \in MarkOps : p.pc = "get_word" /\ p.word \in Range(weakSet)
    /\ ~backBusy
    /\ BackOps = {}

\* what a step leaves of the scheduler, the content of the entries apart:
\* the fields of fc with the items as their words, the face shown, the busy
\* flags and the calls in flight
Words(S, ids) == [i \in DOMAIN ids |-> S.heap[ids[i]].word]
Outcome(S) ==
    [stage |-> S.stage, activeWords |-> Words(S, S.activeWords),
     activeIndex |-> S.activeIndex, seenStates |-> S.seenStates,
     weakSet |-> S.weakSet, groupStart |-> S.groupStart,
     masterWords |-> Words(S, S.masterWords), mode |-> S.mode,
     current |-> S.current, needVerify |-> S.needVerify,
     frontBusy |-> S.frontBusy, backBusy |-> S.backBusy, back |-> S.back,
     procs |-> S.procs, saved |-> S.store # << >>, planDone |-> S.planDone]

\* C13: a backend call of a card operation that gives no result leaves the
\* operation where the same call with a result leaves it: for every
\* get_word call in flight (the one call whose result show, markRemember
\* and the prefetch read) the segment that follows its answer ends in the
\* same stage, activeWords, activeIndex, seenStates, weakSet and
\* groupStart, the same flags and the same calls in flight, with or without
\* a result.
C13_NoResultSameOutcome ==
    \A p \in InFlight :
        /\ (p.kind = "show" /\ p.pc = "get_word") =>
              Outcome(showGotWord(State, p, FALSE))
                  = Outcome(showGotWord(State, p, TRUE))
        /\ (p.kind = "mark" /\ p.pc = "get_word") =>
              Outcome(markGotWord(State, p, FALSE))
                  = Outcome(markGotWord(State, p, TRUE))
        /\ p.kind = "prefetch" =>
              Outcome(prefetchGotWord(State, p, FALSE))
                  = Outcome(prefetchGotWord(State, p, TRUE))

\* a markRemember whose get_word gave no result has flipped the card and
\* given up frontBusy
C13_Witness ==
    /\ "noResult" \in event
    /\ MarkOps = {}
    /\ current # Null /\ ~heap[current].entry
    /\ back /\ ~frontBusy
    /\ store # << >>

\* C14: the snapshot last handed to save_session_state, when it is not null,
\* has 0 <= groupStart <= masterWords.length.
C14_SavedGroupStartInRange ==
    (store # << >>) =>
        /\ 0 <= store[1].groupStart
        /\ store[1].groupStart <= Len(store[1].masterWords)

\* C15: in every state seenStates is as long as activeWords and holds one
\* of todo / ok / weak per item, and with activeWords non-empty
\* 0 <= activeIndex < activeWords.length.
C15_SeenStatesMatchActiveWords ==
    /\ Len(seenStates) = Len(activeWords)
    /\ Range(seenStates) \subseteq {"todo", "ok", "weak"}
    /\ (activeWords # << >>) =>
          (0 <= activeIndex /\ activeIndex < Len(activeWords))

\* a back-of-card call accepted on a word of another working set has
\* written its result into the present one
C15_Witness ==
    /\ \E p \in BackOps :
         /\ p.kind = "back" /\ p.pc = "report"
         /\ p.word \notin {heap[o].word : o \in Range(activeWords)}
    /\ activeWords # << >>
    /\ seenStates[activeIndex + 1] # "todo"

\* C16: while a back-of-card call is between its update of seenStates /
\* weakSet and the advance that follows (it waits for its reports), the
\* snapshot last handed to save_session_state does not show the item at
\* its activeIndex as already marked ok or weak.
C16_NoSnapshotMidTransition ==
    ((\E p \in InFlight : p.kind = "back" /\ p.pc = "report")
        /\ store # << >>) =>
        LET st == store[1]
        IN  (st.activeIndex < Len(st.seenStates)) =>
                st.seenStates[st.activeIndex + 1] = "todo"

\* C17: no get_word answer is assigned to the entry of an item that has an
\* entry already.
C17_EntryWrittenOnce == "entryAgain" \notin event

\* C18: after a step in which tryResume was given an absent state no plan
\* is in progress and no item is shown.
C18_NullLoadMeansNoPlan ==
    ("nullLoad" \in event) => (NoPlan /\ current = Null)

\* the words of the group in progress: masterWords[groupStart ..
\* groupStart + groupSize - 1]
GroupWords ==
    {heap[masterWords[i]].word :
       i \in {k \in DOMAIN masterWords :
                groupStart < k /\ k <= groupStart + groupSize}}

\* C19: while a plan is in progress weakSet holds only words of the group
\* in progress.
C19_WeakSetWithinGroup ==
    ~planDone => Range(weakSet) \subseteq GroupWords

\* C20: a step that leaves the working set of a first pass finds every item
\* of it marked ok or weak: none is left while still todo.
C20_NoItemLeftTodo ==
    [][("firstPassEnd" \in event') =>
         \A i \in DOMAIN seenStates : seenStates[i] \in {"ok", "weak"}]_vars

====
